---- MODULE Spec2Model ----
(***************************************************************************)
(* Model of the SideSwap bridge's WebSocket client (src/server.js, lines   *)
(* 1-743): connection lifecycle, request correlation table, heartbeat,     *)
(* request timeout / retry, stale sweep, health check and shutdown.        *)
(*                                                                         *)
(* Timers are modelled by what they will run, not by when: an armed timer  *)
(* holds its delay in milliseconds and may run at any later step (every    *)
(* delay of CONFIG is read from the environment, and the event loop gives  *)
(* no bound on lateness).  The two tests on elapsed time (the sweeper's    *)
(* and the health check's) read ages that Elapse and HeartbeatAges move,   *)
(* and those respect the order in which timers become due.                 *)
(***************************************************************************)
EXTENDS Integers, Sequences, FiniteSets, TLC

\* ---------------------------------------------------------------- bounds
MaxCallers == 2
MaxRetries == 2
MaxIds == 3
MaxSockets == 2
MaxConnectTimers == 2
\* CONFIG.MAX_RECONNECT_ATTEMPTS, read from the environment (10 when unset)
MAX_RECONNECT_ATTEMPTS == 2
\* Attempt numbers and retry rounds of the backoff computations
MaxAttempt == 6
MaxRound == 6
\* The statistics counters are followed up to this value
MaxStat == 2
\* Identifiers followed when /api/quote is served
MaxQuoteIds == 4

\* ------------------------------------------------------ program constants
REQUEST_TIMEOUT == 35000
QUOTE_RETRY_DELAY_MS == 1000
QUOTE_RETRY_BACKOFF_FACTOR == 2
HEALTH_CHECK_INTERVAL == 30000
HEARTBEAT_INTERVAL == 15000
PONG_TIMEOUT == 7000
MAX_RETRY_DELAY == 30000
STALE_MARGIN == 5000
RECONNECT_INTERVAL == 5000
QUOTE_REQUEST_TIMEOUT == 35000
QUOTE_RETRIES == 3
MAX_RECONNECT_DELAY == 30000
JITTER_BOUND == 500

\* ----------------------------------------------------------------- inputs
Callers == 1..MaxCallers
Ids == 1..MaxIds
Slots == 1..MaxSockets
\* options.timeout of sendWsRequest; 0 stands for an absent (or zero) option
TimeoutOptions == {0, 60000}
RetryOptions == 0..MaxRetries
\* Calls of sendWsRequest one caller can cause: the first and its retries
MaxCall == IF MaxRetries > QUOTE_RETRIES THEN MaxRetries ELSE QUOTE_RETRIES
QuoteIds == 1..MaxQuoteIds
Methods == {"GetQuote", ""}
ParamKinds == {"plain", "circular"}
\* JSON values a reply can carry
Payloads == {"obj", "str"}

None == -1
NoTimer == [delay |-> None]

VARIABLES
    sock,                \* readyState of every WebSocket object not yet collected
    wsClient,            \* slot of the current WebSocket, 0 for null
    inflightRequests,    \* requestId -> pending exchange
    reconnectAttempts,
    isShuttingDown,
    lastHeartbeat,       \* Date.now() - lastHeartbeat, None for null
    heartbeatIntervalId, \* period of the running heartbeat interval, or None
    pongTimeoutId,       \* delay of the armed pong deadline, or None
    connectTimers,       \* number of pending setTimeout(connectToSideSwapManager)
    requestTimers,       \* requestId -> armed timeout timer and its closure
    retryTimers,         \* caller -> pending retry timer and its closure
    settleCalls,         \* [caller][call] -> times its resolve/reject ran
    callers,             \* the promise returned to each top-level caller
    nextId,              \* identifiers handed out by uuidv4 so far, plus one
    exited,              \* process.exit has run
    trafficSinceProbe,   \* observer: a message event came after the last ping
    backoff,             \* observer: the delay computed last, and from what
    connectionStats,     \* the four counters of connectionStats
    handled,             \* observer: what the step did with an inbound message
    wire                 \* observer: the socket each transmission went out on

bridge == <<sock, wsClient, inflightRequests, reconnectAttempts, isShuttingDown,
            lastHeartbeat, heartbeatIntervalId, pongTimeoutId,
            connectTimers, requestTimers, retryTimers,
            settleCalls, callers, nextId, exited, trafficSinceProbe>>

vars == <<bridge, backoff, connectionStats, handled, wire>>

\* ---------------------------------------------------------------- helpers
MinOf(S) == CHOOSE x \in S : \A y \in S : x <= y
MinInt(a, b) == IF a <= b THEN a ELSE b

\* Remove a key of a function
Without(f, k) == [x \in DOMAIN f \ {k} |-> f[x]]
\* Add or replace a key of a function
With(f, k, v) == [x \in DOMAIN f \cup {k} |-> IF x = k THEN v ELSE f[x]]

\* ---------------------------------------------------------- error texts
ErrNotConnected == "WebSocket not connected. Connection attempt initiated. Please try again shortly."
ErrConnecting == "WebSocket is currently connecting. Please try again shortly."
ErrNotReady == "WebSocket not in ready state."
ErrBadMethod == "methodVariantName must be a non-empty string"
ErrSendFailed == "Failed to send WebSocket message"
ErrTimeout == "Request timed out"
ErrClosed == "WebSocket connection closed while request was in flight"
ErrStale == "Request stale and removed"
ErrShutdown == "Server is shutting down"
ErrUnavailable == "WebSocket connection to SideSwap Manager is not ready"

\* String(p) in place of JSON.stringify(p)
StringOf(p) ==
    CASE p = "obj" -> "[object Object]"
      [] p = "str" -> "denied"
      [] OTHER -> "undefined"

\* JSON.stringify of a reply payload
JSONstringify(p) ==
    CASE p = "obj" -> "{\"code\":42}"
      [] p = "str" -> "\"denied\""
      [] OTHER -> "undefined"

\* JSON.parse of an error text, "none" when the text is not JSON
JSONparse(t) ==
    CASE t = "{\"code\":42}" -> "obj"
      [] t = "\"denied\"" -> "str"
      [] OTHER -> "none"

\* ------------------------------------------------- error texts, spelled
\* The messages as sequences of characters, for String.prototype.includes
\* the text of ErrNotConnected
MsgNotConnected ==
    <<"W", "e", "b", "S", "o", "c", "k", "e", "t", " ", "n", "o", "t", " ",
      "c", "o", "n", "n", "e", "c", "t", "e", "d", ".", " ", "C", "o", "n",
      "n", "e", "c", "t", "i", "o", "n", " ", "a", "t", "t", "e", "m", "p",
      "t", " ", "i", "n", "i", "t", "i", "a", "t", "e", "d", ".", " ", "P",
      "l", "e", "a", "s", "e", " ", "t", "r", "y", " ", "a", "g", "a", "i",
      "n", " ", "s", "h", "o", "r", "t", "l", "y", ".">>

\* the text of ErrConnecting
MsgConnecting ==
    <<"W", "e", "b", "S", "o", "c", "k", "e", "t", " ", "i", "s", " ", "c",
      "u", "r", "r", "e", "n", "t", "l", "y", " ", "c", "o", "n", "n", "e",
      "c", "t", "i", "n", "g", ".", " ", "P", "l", "e", "a", "s", "e", " ",
      "t", "r", "y", " ", "a", "g", "a", "i", "n", " ", "s", "h", "o", "r",
      "t", "l", "y", ".">>

\* the text of ErrNotReady
MsgNotReady ==
    <<"W", "e", "b", "S", "o", "c", "k", "e", "t", " ", "n", "o", "t", " ",
      "i", "n", " ", "r", "e", "a", "d", "y", " ", "s", "t", "a", "t", "e",
      ".">>

\* `Request ${requestId} for method ${methodVariantName} timed out after ${timeout}ms`
\* for GetQuote and the default timeout; # stands for the uuid, whose
\* characters are hexadecimal digits and dashes
MsgTimeout ==
    <<"R", "e", "q", "u", "e", "s", "t", " ", "#", " ", "f", "o", "r", " ",
      "m", "e", "t", "h", "o", "d", " ", "G", "e", "t", "Q", "u", "o", "t",
      "e", " ", "t", "i", "m", "e", "d", " ", "o", "u", "t", " ", "a", "f",
      "t", "e", "r", " ", "3", "5", "0", "0", "0", "m", "s">>

\* `WebSocket connection closed while request was in flight. Code: ${code},
\* Reason: ${reasonStr}` for the code and the empty reason of a connection
\* that was terminated or lost
MsgClosed ==
    <<"W", "e", "b", "S", "o", "c", "k", "e", "t", " ", "c", "o", "n", "n",
      "e", "c", "t", "i", "o", "n", " ", "c", "l", "o", "s", "e", "d", " ",
      "w", "h", "i", "l", "e", " ", "r", "e", "q", "u", "e", "s", "t", " ",
      "w", "a", "s", " ", "i", "n", " ", "f", "l", "i", "g", "h", "t", ".",
      " ", "C", "o", "d", "e", ":", " ", "1", "0", "0", "6", ",", " ", "R",
      "e", "a", "s", "o", "n", ":", " ">>

\* `Request ${id} stale and removed`
MsgStale ==
    <<"R", "e", "q", "u", "e", "s", "t", " ", "#", " ", "s", "t", "a", "l",
      "e", " ", "a", "n", "d", " ", "r", "e", "m", "o", "v", "e", "d">>

\* 'timeout'
NeedleTimeout ==
    <<"t", "i", "m", "e", "o", "u", "t">>

\* 'not connected'
NeedleNotConnected ==
    <<"n", "o", "t", " ", "c", "o", "n", "n", "e", "c", "t", "e", "d">>

\* 'not ready'
NeedleNotReady ==
    <<"n", "o", "t", " ", "r", "e", "a", "d", "y">>

\* 'Validation'
NeedleValidation ==
    <<"V", "a", "l", "i", "d", "a", "t", "i", "o", "n">>

\* JSON.stringify of the payload "obj"
MsgRemoteObj ==
    <<"{", "\"", "c", "o", "d", "e", "\"", ":", "4", "2", "}">>

\* JSON.stringify of the payload "str"
MsgRemoteStr ==
    <<"\"", "d", "e", "n", "i", "e", "d", "\"">>

\* e.message of the error a caller was rejected with
MessageOf(value) ==
    CASE value = ErrNotConnected -> MsgNotConnected
      [] value = ErrConnecting -> MsgConnecting
      [] value = ErrNotReady -> MsgNotReady
      [] value = ErrTimeout -> MsgTimeout
      [] value = ErrClosed -> MsgClosed
      [] value = ErrStale -> MsgStale
      [] value = JSONstringify("obj") -> MsgRemoteObj
      [] value = JSONstringify("str") -> MsgRemoteStr
      [] OTHER -> <<>>

\* text.includes(needle)
Includes(text, needle) ==
    \E i \in 1..(Len(text) - Len(needle) + 1) :
        SubSeq(text, i, i + Len(needle) - 1) = needle

\* The status the catch block of /api/quote answers with
QuoteCatch(value) ==
    LET message == MessageOf(value)
    IN IF Includes(message, NeedleTimeout) THEN 504
       ELSE IF Includes(message, NeedleNotConnected)
               \/ Includes(message, NeedleNotReady) THEN 503
       ELSE IF Includes(message, NeedleValidation) THEN 400
       ELSE 500

\* The HTTP status a settled caller of /api/quote was answered with
QuoteStatus(caller) ==
    IF caller.kind = "refused" THEN 503
    ELSE IF caller.kind = "resolved" THEN 200
    ELSE QuoteCatch(caller.value)

\* ------------------------------------------------------------- WebSocket
\* ws: WebSocket.terminate() (and close() as far as readyState goes)
terminate(sk, s) ==
    IF sk[s] \in {"CONNECTING", "OPEN"} THEN [sk EXCEPT ![s] = "CLOSING"] ELSE sk

\* A readiness test that takes any existing socket for ready
isWebSocketAny(sk, ws) == ws # 0

isWebSocketReady(sk, ws) == ws # 0 /\ sk[ws] = "OPEN"

\* stateMap[wsClient.readyState] || 'UNKNOWN'
getConnectionState ==
    IF wsClient = 0 THEN "DISCONNECTED"
    ELSE IF sock[wsClient] \in {"CONNECTING", "OPEN", "CLOSING", "CLOSED"}
         THEN sock[wsClient]
         ELSE "UNKNOWN"

\* Slots whose WebSocket object is gone or closed and no longer referenced
FreeSlots(sk, ws) == {s \in Slots : sk[s] \in {"NONE", "CLOSED"} /\ s # ws}

\* A connect that does not look at the attempt counter
ConnectCreatesUnbounded(sk, ws, ra, shut) ==
    ~shut /\ ~(ws # 0 /\ sk[ws] \in {"OPEN", "CONNECTING"})

\* A connect that does not look at the current socket
ConnectCreatesBlind(sk, ws, ra, shut) == ~shut /\ ra < MAX_RECONNECT_ATTEMPTS

\* connectToSideSwapManager gets past its three early returns
ConnectCreates(sk, ws, ra, shut) ==
    /\ ~shut
    /\ ~(ws # 0 /\ sk[ws] \in {"OPEN", "CONNECTING"})
    /\ ra < MAX_RECONNECT_ATTEMPTS

\* The model can follow the call: a slot is left for the socket it creates
ConnectFits(sk, ws, ra, shut) ==
    ConnectCreates(sk, ws, ra, shut) => FreeSlots(sk, ws) # {}

\* A connect that starts the attempt count over
connectResets(sk, ws, ra, shut) ==
    IF ConnectCreates(sk, ws, ra, shut)
    THEN LET s == MinOf(FreeSlots(sk, ws))
         IN [sock |-> [sk EXCEPT ![s] = "CONNECTING"],
             wsClient |-> s,
             reconnectAttempts |-> 0]
    ELSE [sock |-> sk, wsClient |-> ws, reconnectAttempts |-> ra]

\* A connect that counts every attempt twice
connectCountsTwice(sk, ws, ra, shut) ==
    IF ConnectCreates(sk, ws, ra, shut)
    THEN LET s == MinOf(FreeSlots(sk, ws))
         IN [sock |-> [sk EXCEPT ![s] = "CONNECTING"],
             wsClient |-> s,
             reconnectAttempts |-> ra + 2]
    ELSE [sock |-> sk, wsClient |-> ws, reconnectAttempts |-> ra]

\* connectToSideSwapManager: the early returns, reconnectAttempts++, and
\* the new WebSocket becomes the current one
connectToSideSwapManager(sk, ws, ra, shut) ==
    IF ConnectCreates(sk, ws, ra, shut)
    THEN LET s == MinOf(FreeSlots(sk, ws))
         IN [sock |-> [sk EXCEPT ![s] = "CONNECTING"],
             wsClient |-> s,
             reconnectAttempts |-> ra + 1]
    ELSE [sock |-> sk, wsClient |-> ws, reconnectAttempts |-> ra]

\* A heartbeat that pings whatever socket there is
PingsAny(sk, ws) == ws # 0

\* sendHeartbeat sends a ping
Pings(sk, ws) == ws # 0 /\ sk[ws] = "OPEN"

\* sendHeartbeat: the new value of pongTimeoutId
sendHeartbeat(sk, ws, pong) ==
    IF Pings(sk, ws) THEN PONG_TIMEOUT ELSE pong

\* ---------------------------------------------------------------- promises
\* resolve/reject of call k of caller c runs; a promise that settles hands
\* its value on to the call before it (.then(resolve).catch(reject))
RECURSIVE Invoke(_, _, _)
Invoke(sc, c, k) ==
    LET sc1 == [sc EXCEPT ![c][k] = @ + 1]
    IN IF sc[c][k] = 0 /\ k > 0 THEN Invoke(sc1, c, k - 1) ELSE sc1

\* P is [settleCalls, callers]; chain is FALSE when the process exits before
\* any promise reaction can run
Settle(P, c, k, kind, value, chain) ==
    LET sc1 == IF chain THEN Invoke(P.settleCalls, c, k)
               ELSE [P.settleCalls EXCEPT ![c][k] = @ + 1]
    IN [settleCalls |-> sc1,
        callers |-> IF P.settleCalls[c][0] = 0 /\ sc1[c][0] > 0
                    THEN [P.callers EXCEPT ![c].st = "settled",
                                           ![c].kind = kind,
                                           ![c].value = value]
                    ELSE P.callers]

\* reject every entry of a table (for ... of inflightRequests)
RECURSIVE RejectAll(_, _, _, _)
RejectAll(P, table, value, chain) ==
    IF DOMAIN table = {} THEN P
    ELSE LET id == MinOf(DOMAIN table)
         IN RejectAll(Settle(P, table[id].c, table[id].k, "rejected", value, chain),
                      Without(table, id), value, chain)

\* ---------------------------------------------------------------- backoff
\* No delay computed yet
NoBackoff == [kind |-> "none", n |-> 0, base |-> 0, jitter |-> 0, delay |-> 0]

\* 2 to the power n
RECURSIVE Pow2(_)
Pow2(n) == IF n = 0 THEN 1 ELSE 2 * Pow2(n - 1)

\* Math.min(CONFIG.RECONNECT_INTERVAL * Math.pow(2, reconnectAttempts - 1), 30000)
ReconnectDelay(ra) ==
    MinInt((RECONNECT_INTERVAL * Pow2(ra)) \div 2, MAX_RECONNECT_DELAY)

\* Math.random() * 500, in whole milliseconds
Jitters == 0..(JITTER_BOUND - 1)

\* ------------------------------------------------------------- statistics
StatFields == {"totalConnections", "totalDisconnections", "totalRequests",
               "totalErrors"}

\* connectionStats as declared and as reset-stats makes it (uptime, a time
\* stamp, is left out)
ZeroStats == [f \in StatFields |-> 0]

\* An update that takes one off a counter
Unbump(st, f) == [st EXCEPT ![f] = @ - 1]

\* connectionStats.<f>++
Bump(st, f) == [st EXCEPT ![f] = @ + 1]

\* ------------------------------------------------------------------ wire
\* Nothing transmitted: sent maps each pending exchange to the socket its
\* envelope went out on, op and slot tell what the last step transmitted
NoWire == [sent |-> <<>>, op |-> "none", slot |-> 0]

\* ------------------------------------------------------------------- Init
Init ==
    /\ sock = [s \in Slots |-> IF s = 1 THEN "CONNECTING" ELSE "NONE"]
    /\ wsClient = 1
    /\ inflightRequests = <<>>
    /\ reconnectAttempts = 1
    /\ isShuttingDown = FALSE
    /\ lastHeartbeat = None
    /\ heartbeatIntervalId = None
    /\ pongTimeoutId = None
    /\ connectTimers = 0
    /\ requestTimers = <<>>
    /\ retryTimers = [c \in Callers |-> NoTimer]
    /\ settleCalls = [c \in Callers |-> [k \in 0..MaxCall |-> 0]]
    /\ callers = [c \in Callers |->
                    [st |-> "idle", kind |-> "none", value |-> "none",
                     budget |-> 0, sent |-> 0]]
    /\ nextId = 1
    /\ exited = FALSE
    /\ trafficSinceProbe = FALSE
    /\ backoff = NoBackoff
    /\ connectionStats = ZeroStats
    /\ handled = "none"
    /\ wire = NoWire

\* ---------------------------------------------------------- sendWsRequest
\* options.timeout || CONFIG.REQUEST_TIMEOUT
EffectiveTimeout(opt) == IF opt = 0 THEN REQUEST_TIMEOUT ELSE opt

\* An identifier source that hands out the same identifier again
uuidRepeats(n) == 1

\* uuidv4(): an identifier never handed out before
uuidv4(n) == n

\* A sendWsRequest that registers the exchange before it serializes and
\* sends, and leaves the entry behind when that throws
sendWsRequestRegistersFirst(c, k, method, params, timeout, retries, retryDelay, P) ==
    LET same == [sock |-> sock, wsClient |-> wsClient,
                 reconnectAttempts |-> reconnectAttempts, nextId |-> nextId,
                 inflightRequests |-> inflightRequests,
                 requestTimers |-> requestTimers,
                 settleCalls |-> P.settleCalls, callers |-> P.callers]
        fail(base, text) ==
            LET P1 == Settle(P, c, k, "rejected", text, TRUE)
            IN [base EXCEPT !.settleCalls = P1.settleCalls,
                            !.callers = P1.callers]
    IN
    IF ~isWebSocketReady(sock, wsClient) THEN
        IF wsClient = 0 \/ sock[wsClient] = "CLOSED" THEN
            LET r == connectToSideSwapManager(sock, wsClient,
                                              reconnectAttempts, isShuttingDown)
            IN fail([same EXCEPT !.sock = r.sock, !.wsClient = r.wsClient,
                                 !.reconnectAttempts = r.reconnectAttempts],
                    ErrNotConnected)
        ELSE IF sock[wsClient] = "CONNECTING" THEN fail(same, ErrConnecting)
        ELSE fail(same, ErrNotReady)
    ELSE
        LET requestId == uuidv4(nextId)
            gotId == [same EXCEPT !.nextId = nextId + 1]
        IN
        IF method = "" THEN fail(gotId, ErrBadMethod)
        ELSE IF params = "circular"
        THEN fail([gotId EXCEPT
                      !.inflightRequests =
                          With(inflightRequests, requestId,
                               [c |-> c, k |-> k, retries |-> retries,
                                timeout |-> timeout, age |-> 0])],
                  ErrSendFailed)
        ELSE
            [gotId EXCEPT
                !.inflightRequests =
                    With(inflightRequests, requestId,
                         [c |-> c, k |-> k, retries |-> retries,
                          timeout |-> timeout, age |-> 0]),
                !.requestTimers =
                    With(requestTimers, requestId,
                         [delay |-> timeout, c |-> c, k |-> k, retries |-> retries,
                          timeout |-> timeout, retryDelay |-> retryDelay]),
                !.callers = [P.callers EXCEPT ![c].sent = @ + 1]]

\* Call k of caller c.  The result holds the new value of everything the
\* call can change; P is [settleCalls, callers] before the call.
sendWsRequest(c, k, method, params, timeout, retries, retryDelay, P) ==
    LET same == [sock |-> sock, wsClient |-> wsClient,
                 reconnectAttempts |-> reconnectAttempts, nextId |-> nextId,
                 inflightRequests |-> inflightRequests,
                 requestTimers |-> requestTimers,
                 settleCalls |-> P.settleCalls, callers |-> P.callers]
        fail(base, text) ==
            LET P1 == Settle(P, c, k, "rejected", text, TRUE)
            IN [base EXCEPT !.settleCalls = P1.settleCalls,
                            !.callers = P1.callers]
    IN
    IF ~isWebSocketReady(sock, wsClient) THEN
        IF wsClient = 0 \/ sock[wsClient] = "CLOSED" THEN
            LET r == connectToSideSwapManager(sock, wsClient,
                                              reconnectAttempts, isShuttingDown)
            IN fail([same EXCEPT !.sock = r.sock, !.wsClient = r.wsClient,
                                 !.reconnectAttempts = r.reconnectAttempts],
                    ErrNotConnected)
        ELSE IF sock[wsClient] = "CONNECTING" THEN fail(same, ErrConnecting)
        ELSE fail(same, ErrNotReady)
    ELSE
        LET requestId == uuidv4(nextId)
            gotId == [same EXCEPT !.nextId = nextId + 1]
        IN
        IF method = "" THEN fail(gotId, ErrBadMethod)
        ELSE IF params = "circular" THEN fail(gotId, ErrSendFailed)
        ELSE
            [gotId EXCEPT
                !.inflightRequests =
                    With(inflightRequests, requestId,
                         [c |-> c, k |-> k, retries |-> retries,
                          timeout |-> timeout, age |-> 0]),
                !.requestTimers =
                    With(requestTimers, requestId,
                         [delay |-> timeout, c |-> c, k |-> k, retries |-> retries,
                          timeout |-> timeout, retryDelay |-> retryDelay]),
                !.callers = [P.callers EXCEPT ![c].sent = @ + 1]]

\* The model can follow the call (see ConnectFits)
SendFits ==
    (~isWebSocketReady(sock, wsClient) /\ (wsClient = 0 \/ sock[wsClient] = "CLOSED"))
        => ConnectFits(sock, wsClient, reconnectAttempts, isShuttingDown)

ApplySend(r) ==
    /\ sock' = r.sock
    /\ wsClient' = r.wsClient
    /\ reconnectAttempts' = r.reconnectAttempts
    /\ nextId' = r.nextId
    /\ inflightRequests' = r.inflightRequests
    /\ requestTimers' = r.requestTimers
    /\ settleCalls' = r.settleCalls
    /\ callers' = r.callers

\* Identifiers set aside for the calls of the callers already started
Reserved ==
    LET need(c) == IF callers[c].st = "idle" THEN 0 ELSE callers[c].budget + 1
        RECURSIVE Sum(_)
        Sum(S) == IF S = {} THEN 0
                  ELSE LET x == MinOf(S) IN need(x) + Sum(S \ {x})
    IN Sum(Callers)

\* A caller calls sendWsRequest(method, params, {timeout, retries})
Submit(c, method, params, opt, retries) ==
    /\ ~exited
    /\ callers[c].st = "idle"
    /\ \A d \in Callers : d < c => callers[d].st # "idle"
    /\ Reserved + retries + 1 <= MaxIds
    /\ SendFits
    /\ LET timeout == EffectiveTimeout(opt)
           cl0 == [callers EXCEPT ![c].st = "pending", ![c].budget = retries]
       IN ApplySend(sendWsRequest(c, 0, method, params, timeout, retries,
                                  QUOTE_RETRY_DELAY_MS,
                                  [settleCalls |-> settleCalls, callers |-> cl0]))
    /\ UNCHANGED <<isShuttingDown, lastHeartbeat, heartbeatIntervalId,
                   pongTimeoutId, connectTimers, retryTimers, exited,
                   trafficSinceProbe>>

\* POST /api/quote with a valid body: the readiness test, then sendWsRequest
\* with the configured timeout and retries.  A caller turned away by the
\* readiness test is settled as refused, without a call of sendWsRequest.
ApiQuote(c) ==
    /\ ~exited
    /\ callers[c].st = "idle"
    /\ \A d \in Callers : d < c => callers[d].st # "idle"
    /\ isWebSocketReady(sock, wsClient) => nextId + QUOTE_RETRIES <= MaxQuoteIds
    /\ IF ~isWebSocketReady(sock, wsClient)
       THEN /\ callers' = [callers EXCEPT ![c].st = "settled",
                                          ![c].kind = "refused",
                                          ![c].value = ErrUnavailable]
            /\ UNCHANGED <<sock, wsClient, reconnectAttempts, nextId,
                           inflightRequests, requestTimers, settleCalls>>
       ELSE LET cl0 == [callers EXCEPT ![c].st = "pending",
                                       ![c].budget = QUOTE_RETRIES]
            IN ApplySend(sendWsRequest(c, 0, "GetQuote", "plain",
                                       QUOTE_REQUEST_TIMEOUT, QUOTE_RETRIES,
                                       QUOTE_RETRY_DELAY_MS,
                                       [settleCalls |-> settleCalls, callers |-> cl0]))
    /\ UNCHANGED <<isShuttingDown, lastHeartbeat, heartbeatIntervalId,
                   pongTimeoutId, connectTimers, retryTimers, exited,
                   trafficSinceProbe>>

\* Math.random() * 500, at least 0: a retry timer records its least delay
JITTER == 0

\* A retry delay without the cap
NextRetryDelayUncapped(retryDelay) == retryDelay * QUOTE_RETRY_BACKOFF_FACTOR

\* Math.min(retryDelay * backoffFactor, 30000)
NextRetryDelay(retryDelay) ==
    MinInt(retryDelay * QUOTE_RETRY_BACKOFF_FACTOR, MAX_RETRY_DELAY)

\* What the timeout callback of a request does once it has found the entry
\* still in the table and removed it: [retry, P]
TimeoutOutcome(t, P) ==
    IF t.retries > 0
    THEN [retry |-> [delay |-> NextRetryDelay(t.retryDelay) + JITTER,
                     k |-> t.k + 1, retries |-> t.retries - 1,
                     retryDelay |-> NextRetryDelay(t.retryDelay),
                     timeout |-> t.timeout],
          P |-> P]
    ELSE [retry |-> NoTimer,
          P |-> Settle(P, t.c, t.k, "rejected", ErrTimeout, TRUE)]

\* A timeout callback that never finds its entry
TimeoutNever(id) == FALSE

\* A timeout callback without its guard
TimeoutUnguarded(id) == TRUE

\* The callback's guard: inflightRequests.has(requestId)
TimeoutApplies(id) == id \in DOMAIN inflightRequests

\* The timeout callback of a request runs
RequestTimeout(id) ==
    /\ ~exited
    /\ id \in DOMAIN requestTimers
    /\ requestTimers' = Without(requestTimers, id)
    /\ LET t == requestTimers[id]
           P == [settleCalls |-> settleCalls, callers |-> callers]
       IN IF TimeoutApplies(id)
          THEN LET o == TimeoutOutcome(t, P)
               IN /\ inflightRequests' = Without(inflightRequests, id)
                  /\ retryTimers' = [retryTimers EXCEPT ![t.c] =
                                        IF t.retries > 0 THEN o.retry ELSE @]
                  /\ settleCalls' = o.P.settleCalls
                  /\ callers' = o.P.callers
          ELSE UNCHANGED <<inflightRequests, retryTimers, settleCalls, callers>>
    /\ UNCHANGED <<sock, wsClient, reconnectAttempts, isShuttingDown,
                   lastHeartbeat, heartbeatIntervalId, pongTimeoutId,
                   connectTimers, nextId, exited,
                   trafficSinceProbe>>

\* The retry timer of a caller runs: sendWsRequest again, one retry fewer
RetryRequest(c) ==
    /\ ~exited
    /\ retryTimers[c] # NoTimer
    /\ SendFits
    /\ LET t == retryTimers[c]
       IN ApplySend(sendWsRequest(c, t.k, "GetQuote", "plain", t.timeout,
                                  t.retries, t.retryDelay,
                                  [settleCalls |-> settleCalls, callers |-> callers]))
    /\ retryTimers' = [retryTimers EXCEPT ![c] = NoTimer]
    /\ UNCHANGED <<isShuttingDown, lastHeartbeat, heartbeatIntervalId,
                   pongTimeoutId, connectTimers, exited,
                   trafficSinceProbe>>

\* ------------------------------------------------------- inbound messages
\* What JSON.parse yields for the data of a message event; Garbage is data
\* JSON.parse throws on.  id 0 is an absent id, payload "falsy" a falsy value.
Garbage == [wrap |-> "bare", tag |-> "Garbage", id |-> 0, payload |-> "none"]
Replies == [wrap : {"From", "bare"}, tag : {"Resp", "Error"},
            id : 0..MaxIds, payload : Payloads]
Notifs == [wrap : {"From", "bare"}, tag : {"Notif"}, id : {0},
           payload : Payloads \cup {"falsy"}]
Others == [wrap : {"From", "bare"}, tag : {"Other"}, id : {0}, payload : {"obj"}]
Messages == Replies \cup Notifs \cup Others \cup {Garbage}

\* An envelope sniffing that takes a notification for the reply to the
\* oldest pending exchange
ParseEnvelopeNotifReplies(m) ==
    IF m.tag = "Notif" /\ m.payload # "falsy" /\ DOMAIN inflightRequests # {}
    THEN [requestId |-> MinOf(DOMAIN inflightRequests), payload |-> m.payload,
          isError |-> FALSE, notif |-> FALSE]
    ELSE IF m.tag = "Resp" /\ m.id # 0
    THEN [requestId |-> m.id, payload |-> m.payload, isError |-> FALSE, notif |-> FALSE]
    ELSE IF m.tag = "Error" /\ m.id # 0
    THEN [requestId |-> m.id, payload |-> m.payload, isError |-> TRUE, notif |-> FALSE]
    ELSE IF m.tag = "Notif" /\ m.payload # "falsy"
    THEN [requestId |-> 0, payload |-> m.payload, isError |-> FALSE, notif |-> TRUE]
    ELSE [requestId |-> 0, payload |-> "none", isError |-> FALSE, notif |-> FALSE]

\* An envelope sniffing that takes an envelope of no known shape for an
\* error reply to the oldest pending exchange
ParseEnvelopeShapeless(m) ==
    IF m.tag = "Other" /\ DOMAIN inflightRequests # {}
    THEN [requestId |-> MinOf(DOMAIN inflightRequests), payload |-> m.payload,
          isError |-> TRUE, notif |-> FALSE]
    ELSE IF m.tag = "Resp" /\ m.id # 0
    THEN [requestId |-> m.id, payload |-> m.payload, isError |-> FALSE, notif |-> FALSE]
    ELSE IF m.tag = "Error" /\ m.id # 0
    THEN [requestId |-> m.id, payload |-> m.payload, isError |-> TRUE, notif |-> FALSE]
    ELSE IF m.tag = "Notif" /\ m.payload # "falsy"
    THEN [requestId |-> 0, payload |-> m.payload, isError |-> FALSE, notif |-> TRUE]
    ELSE [requestId |-> 0, payload |-> "none", isError |-> FALSE, notif |-> FALSE]

\* An envelope sniffing that hands a reply with an id that is not in the
\* table to the oldest pending exchange
ParseEnvelopeLate(m) ==
    IF m.tag \in {"Resp", "Error"} /\ m.id # 0
       /\ m.id \notin DOMAIN inflightRequests /\ DOMAIN inflightRequests # {}
    THEN [requestId |-> MinOf(DOMAIN inflightRequests), payload |-> m.payload,
          isError |-> m.tag = "Error", notif |-> FALSE]
    ELSE IF m.tag = "Resp" /\ m.id # 0
    THEN [requestId |-> m.id, payload |-> m.payload, isError |-> FALSE, notif |-> FALSE]
    ELSE IF m.tag = "Error" /\ m.id # 0
    THEN [requestId |-> m.id, payload |-> m.payload, isError |-> TRUE, notif |-> FALSE]
    ELSE IF m.tag = "Notif" /\ m.payload # "falsy"
    THEN [requestId |-> 0, payload |-> m.payload, isError |-> FALSE, notif |-> TRUE]
    ELSE [requestId |-> 0, payload |-> "none", isError |-> FALSE, notif |-> FALSE]

\* The envelope sniffing of the message handler: the same branches are taken
\* under From and without it.  requestId 0 is undefined.
ParseEnvelope(m) ==
    IF m.tag = "Resp" /\ m.id # 0
    THEN [requestId |-> m.id, payload |-> m.payload, isError |-> FALSE, notif |-> FALSE]
    ELSE IF m.tag = "Error" /\ m.id # 0
    THEN [requestId |-> m.id, payload |-> m.payload, isError |-> TRUE, notif |-> FALSE]
    ELSE IF m.tag = "Notif" /\ m.payload # "falsy"
    THEN [requestId |-> 0, payload |-> m.payload, isError |-> FALSE, notif |-> TRUE]
    ELSE [requestId |-> 0, payload |-> "none", isError |-> FALSE, notif |-> FALSE]

\* A settlement that wakes the caller of the oldest entry, whatever the id
ReplyOutcomeOldest(e, env, P) ==
    LET f == inflightRequests[MinOf(DOMAIN inflightRequests)]
    IN IF env.isError
       THEN Settle(P, f.c, f.k, "rejected", JSONstringify(env.payload), TRUE)
       ELSE Settle(P, f.c, f.k, "resolved", env.payload, TRUE)

\* A settlement that hands every reply on as text
ReplyOutcomeText(e, env, P) ==
    Settle(P, e.c, e.k, IF env.isError THEN "rejected" ELSE "resolved",
           JSONstringify(env.payload), TRUE)

\* The settlement of a matched entry
ReplyOutcome(e, env, P) ==
    IF env.isError
    THEN Settle(P, e.c, e.k, "rejected", JSONstringify(env.payload), TRUE)
    ELSE Settle(P, e.c, e.k, "resolved", env.payload, TRUE)

\* wsClient.on('message') of socket s
Receive(s, m) ==
    /\ ~exited
    /\ sock[s] = "OPEN"
    /\ IF m.tag = "Garbage"
       THEN UNCHANGED <<lastHeartbeat, inflightRequests, settleCalls, callers>>
       ELSE LET env == ParseEnvelope(m)
                P == [settleCalls |-> settleCalls, callers |-> callers]
            IN /\ lastHeartbeat' = 0
               /\ IF ~env.notif /\ env.requestId # 0
                     /\ env.requestId \in DOMAIN inflightRequests
                  THEN LET o == ReplyOutcome(inflightRequests[env.requestId],
                                             env, P)
                       IN /\ settleCalls' = o.settleCalls
                          /\ callers' = o.callers
                          /\ inflightRequests' =
                                 Without(inflightRequests, env.requestId)
                  ELSE UNCHANGED <<settleCalls, callers, inflightRequests>>
    /\ UNCHANGED <<sock, wsClient, reconnectAttempts, isShuttingDown,
                   heartbeatIntervalId, pongTimeoutId, connectTimers,
                   requestTimers, retryTimers, nextId, exited>>
    /\ trafficSinceProbe' = (pongTimeoutId # None)

\* ----------------------------------------------------------- socket events
\* wsClient.on('open') of socket s
SocketOpen(s) ==
    /\ ~exited
    /\ sock[s] = "CONNECTING"
    /\ sock' = [sock EXCEPT ![s] = "OPEN"]
    /\ reconnectAttempts' = 0
    /\ lastHeartbeat' = 0
    /\ pongTimeoutId' = sendHeartbeat(sock', wsClient, pongTimeoutId)
    /\ heartbeatIntervalId' = HEARTBEAT_INTERVAL
    /\ UNCHANGED <<wsClient, inflightRequests, isShuttingDown, connectTimers,
                   requestTimers, retryTimers, settleCalls, callers, nextId, exited>>
    /\ trafficSinceProbe' = (~Pings(sock', wsClient) /\ trafficSinceProbe)

\* wsClient.on('error') of socket s; ws has moved s to CLOSING before it emits
SocketError(s) ==
    /\ ~exited
    /\ sock[s] \in {"CONNECTING", "OPEN"}
    /\ LET sk == [sock EXCEPT ![s] = "CLOSING"]
       IN sock' = IF wsClient # 0 /\ sk[wsClient] # "CLOSED"
                  THEN terminate(sk, wsClient) ELSE sk
    /\ UNCHANGED <<wsClient, inflightRequests, reconnectAttempts,
                   isShuttingDown, lastHeartbeat, heartbeatIntervalId,
                   pongTimeoutId, connectTimers, requestTimers, retryTimers,
                   settleCalls, callers, nextId, exited,
                   trafficSinceProbe>>

\* The close handler schedules a reconnection
CloseReconnects(shut, ra) == ~shut /\ ra < MAX_RECONNECT_ATTEMPTS

\* A close handler that fails only the oldest pending exchange
CloseCascadeOne(P, table) ==
    IF DOMAIN table = {} THEN [P |-> P, inflightRequests |-> table]
    ELSE LET id == MinOf(DOMAIN table)
         IN [P |-> Settle(P, table[id].c, table[id].k, "rejected", ErrClosed, TRUE),
             inflightRequests |-> Without(table, id)]

\* A close handler that clears the table without a word to the callers
CloseCascadeSilent(P, table) == [P |-> P, inflightRequests |-> <<>>]

\* A close handler that also fails the callers that wait for a retry
CloseCascadeWaiting(P, table) ==
    LET RECURSIVE FailWaiting(_, _)
        FailWaiting(Q, S) ==
            IF S = {} THEN Q
            ELSE LET c == MinOf(S)
                 IN FailWaiting(Settle(Q, c, 0, "rejected", ErrClosed, TRUE),
                                S \ {c})
    IN [P |-> FailWaiting(RejectAll(P, table, ErrClosed, TRUE),
                          {c \in Callers : retryTimers[c] # NoTimer}),
        inflightRequests |-> <<>>]

\* The close handler's cascade over the table: [P, inflightRequests]
CloseCascade(P, table) ==
    [P |-> RejectAll(P, table, ErrClosed, TRUE), inflightRequests |-> <<>>]

\* A close handler that keeps the reference to the socket
CloseKeeps(ws) == ws

\* wsClient = null in the close handler
CloseClears(ws) == 0

\* wsClient.on('close') of socket s
SocketClose(s) ==
    /\ ~exited
    /\ sock[s] \in {"OPEN", "CLOSING"}
    /\ sock' = [sock EXCEPT ![s] = "CLOSED"]
    /\ wsClient' = CloseClears(wsClient)
    /\ lastHeartbeat' = None
    /\ heartbeatIntervalId' = None
    /\ pongTimeoutId' = None
    /\ LET o == CloseCascade([settleCalls |-> settleCalls, callers |-> callers],
                             inflightRequests)
       IN /\ settleCalls' = o.P.settleCalls
          /\ callers' = o.P.callers
          /\ inflightRequests' = o.inflightRequests
    /\ connectTimers' = IF CloseReconnects(isShuttingDown, reconnectAttempts)
                        THEN connectTimers + 1 ELSE connectTimers
    /\ UNCHANGED <<reconnectAttempts, isShuttingDown, requestTimers,
                   retryTimers, nextId, exited>>
    /\ trafficSinceProbe' = FALSE

\* --------------------------------------------------------------- timers
\* setTimeout(connectToSideSwapManager, delay) runs
ConnectTimer ==
    /\ ~exited
    /\ connectTimers > 0
    /\ ConnectFits(sock, wsClient, reconnectAttempts, isShuttingDown)
    /\ connectTimers' = connectTimers - 1
    /\ LET r == connectToSideSwapManager(sock, wsClient, reconnectAttempts,
                                         isShuttingDown)
       IN /\ sock' = r.sock
          /\ wsClient' = r.wsClient
          /\ reconnectAttempts' = r.reconnectAttempts
    /\ UNCHANGED <<inflightRequests, isShuttingDown, lastHeartbeat,
                   heartbeatIntervalId, pongTimeoutId, requestTimers,
                   retryTimers, settleCalls, callers, nextId, exited,
                   trafficSinceProbe>>

\* setInterval(sendHeartbeat, CONFIG.HEARTBEAT_INTERVAL) runs
HeartbeatTimer ==
    /\ ~exited
    /\ heartbeatIntervalId # None
    /\ heartbeatIntervalId' = heartbeatIntervalId
    /\ pongTimeoutId' = sendHeartbeat(sock, wsClient, pongTimeoutId)
    /\ UNCHANGED <<sock, wsClient, inflightRequests, reconnectAttempts,
                   isShuttingDown, lastHeartbeat, connectTimers, requestTimers,
                   retryTimers, settleCalls, callers, nextId, exited>>
    /\ trafficSinceProbe' = (~Pings(sock, wsClient) /\ trafficSinceProbe)

\* A shutdown that fails the pending exchanges as a close would
ShutdownCascadeClosed(P, table) == RejectAll(P, table, ErrClosed, FALSE)

\* gracefulShutdown's loop over the table
ShutdownCascade(P, table) == RejectAll(P, table, ErrShutdown, FALSE)

\* gracefulShutdown, up to and including process.exit: no promise reaction
\* runs any more, and every timer dies with the process
Shutdown ==
    /\ isShuttingDown' = TRUE
    /\ sock' = IF wsClient # 0 THEN terminate(sock, wsClient) ELSE sock
    /\ LET P == ShutdownCascade([settleCalls |-> settleCalls, callers |-> callers],
                                inflightRequests)
       IN /\ settleCalls' = P.settleCalls
          /\ callers' = P.callers
    /\ inflightRequests' = <<>>
    /\ requestTimers' = <<>>
    /\ retryTimers' = [c \in Callers |-> NoTimer]
    /\ connectTimers' = 0
    /\ heartbeatIntervalId' = None
    /\ pongTimeoutId' = None
    /\ exited' = TRUE
    /\ trafficSinceProbe' = FALSE

\* A deadline callback that lets the socket live
PongSpares(heard) == FALSE

\* Whether the pong deadline callback terminates the transport, given whether
\* anything was received since the ping: it does not look at it
PongTerminates(heard) == TRUE

\* The pong deadline callback runs; a null wsClient makes it throw, and the
\* uncaughtException handler shuts the process down
PongTimer ==
    /\ ~exited
    /\ pongTimeoutId # None
    /\ IF wsClient # 0
       THEN /\ pongTimeoutId' = None
            /\ trafficSinceProbe' = FALSE
            /\ sock' = IF PongTerminates(trafficSinceProbe)
                       THEN terminate(sock, wsClient) ELSE sock
            /\ UNCHANGED <<inflightRequests, isShuttingDown, requestTimers,
                           settleCalls, callers, exited, heartbeatIntervalId,
                           connectTimers, retryTimers>>
       ELSE Shutdown
    /\ UNCHANGED <<wsClient, reconnectAttempts, lastHeartbeat, nextId>>

\* process.on('SIGTERM' | 'SIGINT' | 'SIGUSR2')
gracefulShutdown ==
    /\ ~exited
    /\ Shutdown
    /\ UNCHANGED <<wsClient, reconnectAttempts, lastHeartbeat, nextId>>

\* A reconnect command that leaves the attempt counter alone
ReconnectKeeps(ra) == ra

\* The attempt counter after POST /api/reconnect
ReconnectResets(ra) == 0

\* POST /api/reconnect
ApiReconnect ==
    /\ ~exited
    /\ connectTimers < MaxConnectTimers
    /\ sock' = IF wsClient # 0 THEN terminate(sock, wsClient) ELSE sock
    /\ reconnectAttempts' = ReconnectResets(reconnectAttempts)
    /\ connectTimers' = connectTimers + 1
    /\ UNCHANGED <<wsClient, inflightRequests, isShuttingDown, lastHeartbeat,
                   heartbeatIntervalId, pongTimeoutId, requestTimers,
                   retryTimers, settleCalls, callers, nextId, exited,
                   trafficSinceProbe>>

\* The sweeper's test of one entry
IsStale(e) == e.age > REQUEST_TIMEOUT + STALE_MARGIN

\* A sweeper that does not clear the timeout timers of what it removes
cleanupKeepsTimers ==
    /\ ~exited
    /\ LET stale == {id \in DOMAIN inflightRequests : IsStale(inflightRequests[id])}
           P == RejectAll([settleCalls |-> settleCalls, callers |-> callers],
                          [id \in stale |-> inflightRequests[id]], ErrStale, TRUE)
       IN /\ stale # {}
          /\ settleCalls' = P.settleCalls
          /\ callers' = P.callers
          /\ inflightRequests' = [id \in DOMAIN inflightRequests \ stale
                                     |-> inflightRequests[id]]
          /\ requestTimers' = requestTimers
    /\ UNCHANGED <<sock, wsClient, reconnectAttempts, isShuttingDown,
                   lastHeartbeat, heartbeatIntervalId, pongTimeoutId,
                   connectTimers, retryTimers, nextId, exited,
                   trafficSinceProbe>>

\* cleanupStaleRequests runs.  It runs every CLEANUP_INTERVAL from process
\* start; requests arrive at any phase of that period, so the sweep may find
\* the table at any instant.
cleanupStaleRequests ==
    /\ ~exited
    /\ LET stale == {id \in DOMAIN inflightRequests : IsStale(inflightRequests[id])}
           P == RejectAll([settleCalls |-> settleCalls, callers |-> callers],
                          [id \in stale |-> inflightRequests[id]], ErrStale, TRUE)
       IN /\ stale # {}
          /\ settleCalls' = P.settleCalls
          /\ callers' = P.callers
          /\ inflightRequests' = [id \in DOMAIN inflightRequests \ stale
                                     |-> inflightRequests[id]]
          /\ requestTimers' = [id \in DOMAIN requestTimers \ stale
                                  |-> requestTimers[id]]
    /\ UNCHANGED <<sock, wsClient, reconnectAttempts, isShuttingDown,
                   lastHeartbeat, heartbeatIntervalId, pongTimeoutId,
                   connectTimers, retryTimers, nextId, exited,
                   trafficSinceProbe>>

\* performHealthCheck runs (every HEALTH_CHECK_INTERVAL, at any phase) and
\* finds the heartbeat too old
performHealthCheck ==
    /\ ~exited
    /\ lastHeartbeat # None
    /\ lastHeartbeat > HEALTH_CHECK_INTERVAL * 2
    /\ wsClient # 0
    /\ sock' = terminate(sock, wsClient)
    /\ sock' # sock
    /\ UNCHANGED <<wsClient, inflightRequests, reconnectAttempts,
                   isShuttingDown, lastHeartbeat, heartbeatIntervalId,
                   pongTimeoutId, connectTimers, requestTimers, retryTimers,
                   settleCalls, callers, nextId, exited,
                   trafficSinceProbe>>

\* ------------------------------------------------------------------ time
\* The least age at which the sweeper's test holds
StaleAge == REQUEST_TIMEOUT + STALE_MARGIN + 1
\* The least age at which the health check's test holds
OldHeartbeat == HEALTH_CHECK_INTERVAL * 2 + 1

\* Time passes for a pending exchange until the sweeper's test holds; its own
\* timer is not yet due then, so its timeout is longer than that
Elapse(id) ==
    /\ ~exited
    /\ id \in DOMAIN inflightRequests
    /\ id \in DOMAIN requestTimers
    /\ inflightRequests[id].age < StaleAge
    /\ StaleAge < requestTimers[id].delay
    /\ inflightRequests' = [inflightRequests EXCEPT ![id].age = StaleAge]
    /\ UNCHANGED <<sock, wsClient, reconnectAttempts, isShuttingDown,
                   lastHeartbeat, heartbeatIntervalId, pongTimeoutId,
                   connectTimers, requestTimers, retryTimers, settleCalls,
                   callers, nextId, exited,
                   trafficSinceProbe>>

\* Time passes without inbound traffic until the health check's test holds;
\* a pong deadline, shorter than that, is not pending then
HeartbeatAges ==
    /\ ~exited
    /\ lastHeartbeat # None
    /\ lastHeartbeat < OldHeartbeat
    /\ pongTimeoutId = None
    /\ lastHeartbeat' = OldHeartbeat
    /\ UNCHANGED <<sock, wsClient, inflightRequests, reconnectAttempts,
                   isShuttingDown, heartbeatIntervalId, pongTimeoutId,
                   connectTimers, requestTimers, retryTimers, settleCalls,
                   callers, nextId, exited,
                   trafficSinceProbe>>

\* ------------------------------------------------------------ properties
Calls == 0..MaxCall
NotOpen == wsClient = 0 \/ sock[wsClient] # "OPEN"
NotConnectedErrors == {ErrNotConnected, ErrConnecting, ErrNotReady}
\* The exchanges of the table that belong to caller c
EntriesOf(c) == {id \in DOMAIN inflightRequests : inflightRequests[id].c = c}
\* Everything of the callers other than c is left as it was
OthersUntouched(c) ==
    \A d \in Callers \ {c} :
        /\ callers'[d] = callers[d]
        /\ settleCalls'[d] = settleCalls[d]
        /\ \A id \in EntriesOf(d) :
               id \in DOMAIN inflightRequests'
               /\ inflightRequests'[id] = inflightRequests[id]

\* C1: whatever the interleaving of reply, timeout, close cascade, stale
\* sweep and shutdown, the resolve/reject pair of every call (one per request
\* id) runs at most once.
C1_SettledAtMostOnce ==
    \A c \in Callers, k \in Calls : settleCalls[c][k] <= 1

\* A caller was resolved by a reply, and the timeout timer its request left
\* armed has run since.
C1_Witness ==
    /\ ~exited
    /\ callers[1].kind = "resolved"
    /\ settleCalls[1][0] = 1
    /\ requestTimers = <<>>
    /\ nextId = 2

\* C3: when a socket's close event is handled with N exchanges pending, that
\* step rejects every one of the N callers with the connection-closed error
\* and leaves the table empty.
C3_CloseFailsAll ==
    [][(\E s \in Slots : sock[s] # "CLOSED" /\ sock'[s] = "CLOSED") =>
          /\ inflightRequests' = <<>>
          /\ \A id \in DOMAIN inflightRequests :
                LET e == inflightRequests[id]
                IN /\ settleCalls[e.c][e.k] = 0
                   /\ settleCalls'[e.c][e.k] = 1
                   /\ callers[e.c].st = "pending"
                   /\ callers'[e.c].st = "settled"
                   /\ callers'[e.c].kind = "rejected"
                   /\ callers'[e.c].value = ErrClosed]_vars

\* Both callers had an exchange pending and both were failed by a close.
C3_Witness ==
    /\ \A c \in Callers : callers[c].value = ErrClosed /\ callers[c].sent = 1
    /\ inflightRequests = <<>>
    /\ wsClient = 0

\* C4: a call of sendWsRequest (first or retry) made while the current socket
\* is absent or not OPEN rejects its caller in that step with one of the
\* not-connected errors, allocates no identifier, transmits nothing and leaves
\* the table and the timers as they were.
C4_NotOpenRejects ==
    [][\A c \in Callers :
          (/\ NotOpen
           /\ ~exited'
           /\ \/ callers[c].st = "idle" /\ callers'[c].st # "idle"
              \/ retryTimers[c] # NoTimer /\ retryTimers'[c] = NoTimer)
          => /\ callers'[c].st = "settled"
             /\ callers'[c].kind = "rejected"
             /\ callers'[c].value \in NotConnectedErrors
             /\ callers'[c].sent = callers[c].sent
             /\ nextId' = nextId
             /\ inflightRequests' = inflightRequests
             /\ requestTimers' = requestTimers
             /\ retryTimers'[c] = NoTimer]_vars

\* A retry found the socket not OPEN and failed its caller at once.
C4_Witness ==
    \E c \in Callers :
        /\ callers[c].value \in NotConnectedErrors
        /\ callers[c].sent = 1
        /\ callers[c].budget > 0
        /\ settleCalls[c][1] = 1

\* C6: an exchange enters the table only under an identifier that was never
\* handed out before (first transmission or retry), and that no entry and no
\* armed timer refers to.
C6_FreshIds ==
    [][\A id \in DOMAIN inflightRequests' :
          (id \notin DOMAIN inflightRequests
           \/ inflightRequests'[id].k # inflightRequests[id].k
           \/ inflightRequests'[id].c # inflightRequests[id].c)
          => /\ id >= nextId
             /\ id < nextId'
             /\ id \notin DOMAIN inflightRequests
             /\ id \notin DOMAIN requestTimers]_vars

\* A retry is pending in the table under its own identifier while the second
\* caller's exchange is pending too.
C6_Witness ==
    \E i, j \in DOMAIN inflightRequests :
        /\ i # j
        /\ inflightRequests[i].k = 1
        /\ inflightRequests[j].c # inflightRequests[i].c

\* C7: a success envelope, bare or under From, whose id matches an entry
\* resolves the caller of that entry with the Resp payload as received,
\* removes the entry, and touches no other caller or entry.
C7_ReplyResolves ==
    [][\A s \in Slots, m \in Replies :
          (m.tag = "Resp" /\ m.id \in DOMAIN inflightRequests /\ Receive(s, m))
          => LET e == inflightRequests[m.id]
             IN /\ callers'[e.c].st = "settled"
                /\ callers'[e.c].kind = "resolved"
                /\ callers'[e.c].value = m.payload
                /\ settleCalls'[e.c][e.k] = 1
                /\ DOMAIN inflightRequests' = DOMAIN inflightRequests \ {m.id}
                /\ OthersUntouched(e.c)]_vars

\* The first caller was resolved with the string payload while the second
\* caller's exchange is still pending.
C7_Witness ==
    /\ callers[1].kind = "resolved"
    /\ callers[1].value = "str"
    /\ EntriesOf(2) # {}
    /\ callers[2].st = "pending"

C2_EventuallySettled ==
    /\ \A c \in Callers :
           (callers[c].st = "pending") ~> (callers[c].st = "settled" \/ exited)
    /\ \A id \in Ids :
           (id \in DOMAIN inflightRequests) ~> (id \notin DOMAIN inflightRequests)

\* A caller that went through a retry was settled by the timeout of its last
\* transmission.
C2_Witness ==
    \E c \in Callers :
        /\ callers[c].st = "settled"
        /\ callers[c].value = ErrTimeout
        /\ callers[c].sent = 2
        /\ EntriesOf(c) = {}
        /\ ~exited

\* The pong deadline callback runs on a socket that is current and OPEN
PongDeadlineStep ==
    /\ ~exited'
    /\ pongTimeoutId # None /\ pongTimeoutId' = None
    /\ wsClient # 0 /\ wsClient' = wsClient
    /\ sock[wsClient] = "OPEN"

Excused ==
    NotConnectedErrors \cup {ErrClosed, ErrShutdown, ErrBadMethod, ErrSendFailed}
        \cup Payloads \cup {JSONstringify(p) : p \in Payloads}

\* C5: a request with retry budget r that is answered by no reply and loses
\* no connection ends rejected with the timeout error after exactly r + 1
\* transmissions, with no entry of it left in the table.
C5_BudgetThenTimeout ==
    \A c \in Callers :
        (callers[c].st = "settled" /\ callers[c].value \notin Excused)
        => /\ callers[c].value = ErrTimeout
           /\ callers[c].sent = callers[c].budget + 1
           /\ EntriesOf(c) = {}

\* C10: the pong deadline callback terminates an OPEN socket only if no
\* message event came since the ping was sent.
C10_TerminatesOnlyWhenSilent ==
    [][(PongDeadlineStep /\ sock'[wsClient] = "CLOSING")
       => ~trafficSinceProbe]_vars

\* WebSocket objects that are connecting or open
Live == {s \in Slots : sock[s] \in {"CONNECTING", "OPEN"}}

\* C11: at every reachable state at most one WebSocket object is CONNECTING
\* or OPEN.
C11_OneLiveTransport == Cardinality(Live) <= 1

\* The current socket is CONNECTING or OPEN
CurrentLive == wsClient # 0 /\ sock[wsClient] \in {"CONNECTING", "OPEN"}

\* A reconnect timer runs (the one step that only calls
\* connectToSideSwapManager)
ConnectTimerStep == ~exited' /\ connectTimers' = connectTimers - 1

\* C12: while the current socket is CONNECTING or OPEN,
\* connectToSideSwapManager returns what it was given, once or twice in a
\* row, and a reconnect timer that runs then changes nothing but itself: no
\* socket is created, wsClient, the attempt counter and the table stay.
C12_ConnectIdempotent ==
    /\ [](CurrentLive =>
            LET same == [sock |-> sock, wsClient |-> wsClient,
                         reconnectAttempts |-> reconnectAttempts]
                once == connectToSideSwapManager(sock, wsClient,
                                                 reconnectAttempts, isShuttingDown)
                twice == connectToSideSwapManager(once.sock, once.wsClient,
                                                  once.reconnectAttempts,
                                                  isShuttingDown)
            IN once = same /\ twice = same)
    /\ [][(ConnectTimerStep /\ CurrentLive) =>
             /\ sock' = sock
             /\ wsClient' = wsClient
             /\ reconnectAttempts' = reconnectAttempts
             /\ inflightRequests' = inflightRequests
             /\ requestTimers' = requestTimers
             /\ callers' = callers]_vars

\* A reconnect timer was pending when sendWsRequest opened a socket, and it
\* has run while that socket was CONNECTING or OPEN: the socket is still the
\* only one ever created besides its predecessors in slot 1.
C12_Witness ==
    /\ ~exited
    /\ wsClient = 1 /\ sock[1] = "OPEN" /\ sock[2] = "NONE"
    /\ connectTimers = 0
    /\ reconnectAttempts = 0
    /\ callers[1].value = ErrNotConnected
    /\ callers[2].st = "idle"

\* A WebSocket object is created in this step
CreatesSocket == \E s \in Slots : sock[s] # "CONNECTING" /\ sock'[s] = "CONNECTING"
\* The close event of a socket is handled in this step
CloseStep == \E s \in Slots : sock[s] # "CLOSED" /\ sock'[s] = "CLOSED"

\* C13: every socket creation (by a reconnect timer or by sendWsRequest's
\* connect) happens with the attempt counter below MAX_RECONNECT_ATTEMPTS and
\* adds one to it, so with the counter at the maximum no socket is created;
\* the close handler arms a reconnect timer exactly when the counter is below
\* the maximum, so it gives up after the attempt that made the counter reach
\* it, not before.
C13_GivesUpAtMax ==
    /\ [][CreatesSocket =>
             /\ reconnectAttempts < MAX_RECONNECT_ATTEMPTS
             /\ reconnectAttempts' = reconnectAttempts + 1]_vars
    /\ [][(CloseStep /\ ~isShuttingDown) =>
             connectTimers' = IF reconnectAttempts < MAX_RECONNECT_ATTEMPTS
                              THEN connectTimers + 1 ELSE connectTimers]_vars

\* The bridge has given up: the counter is at the maximum, no socket is left
\* and no timer is pending, and a sendWsRequest was turned away.
C13_Witness ==
    /\ ~exited
    /\ reconnectAttempts = MAX_RECONNECT_ATTEMPTS
    /\ wsClient = 0 /\ Live = {}
    /\ connectTimers = 0
    /\ \E c \in Callers : callers[c].value = ErrNotConnected

\* The reconnect command has reset the counter and armed its timer, and the
\* socket it terminated, if any, is no longer live
ReconnectPending ==
    ~exited /\ reconnectAttempts = 0 /\ connectTimers > 0 /\ ~CurrentLive

\* C14: POST /api/reconnect sets the attempt counter to zero whatever it was,
\* arms a connect timer, leaves the current socket (if any) terminated and
\* touches neither the table nor any caller; from there a new socket is
\* eventually created and made current, unless the process exits first; and
\* the close event of the terminated socket comes and fails every exchange
\* then pending with the connection-closed error.
C14_ReconnectCommand ==
    /\ [][ApiReconnect =>
             /\ ReconnectPending'
             /\ connectTimers' = connectTimers + 1
             /\ wsClient' = wsClient
             /\ \A s \in Slots : sock'[s] = IF s = wsClient THEN terminate(sock, s)[s]
                                           ELSE sock[s]
             /\ inflightRequests' = inflightRequests
             /\ callers' = callers]_vars
    /\ ReconnectPending ~> (exited \/ CurrentLive)
    /\ \A s \in Slots :
          (wsClient = s /\ sock[s] = "CLOSING") ~> (exited \/ sock[s] = "CLOSED")
    /\ [][\A s \in Slots :
             (wsClient = s /\ sock[s] = "CLOSING" /\ sock'[s] = "CLOSED") =>
                /\ wsClient' = 0
                /\ inflightRequests' = <<>>
                /\ \A id \in DOMAIN inflightRequests :
                      LET e == inflightRequests[id]
                      IN settleCalls[e.c][e.k] = 0 =>
                            /\ callers'[e.c].kind = "rejected"
                            /\ callers'[e.c].value = ErrClosed]_vars

\* The command came while the first socket was still connecting: the socket is
\* terminated, the counter is zero although no socket has opened yet, and the
\* command's timer is armed.
C14_Witness ==
    /\ ~exited
    /\ wsClient = 1 /\ sock[1] = "CLOSING" /\ sock[2] = "NONE"
    /\ reconnectAttempts = 0
    /\ lastHeartbeat = None
    /\ connectTimers = 1

\* C15: the step in which gracefulShutdown starts calls reject with the
\* shutting-down error for every exchange pending at that moment (a caller
\* whose first call was pending is rejected with it, none with the
\* connection-closed error), empties the table, leaves no connect timer and
\* no request or retry timer armed and the current socket not live; from then
\* on no socket is created and no connect timer is armed.
C15_ShutdownIsFinal ==
    /\ [][(~isShuttingDown /\ isShuttingDown') =>
             /\ inflightRequests' = <<>>
             /\ connectTimers' = 0
             /\ requestTimers' = <<>>
             /\ \A c \in Callers : retryTimers'[c] = NoTimer
             /\ ~CurrentLive'
             /\ \A id \in DOMAIN inflightRequests :
                   LET e == inflightRequests[id]
                   IN /\ settleCalls'[e.c][e.k] = settleCalls[e.c][e.k] + 1
                      /\ (e.k = 0 /\ settleCalls[e.c][0] = 0) =>
                            /\ callers'[e.c].kind = "rejected"
                            /\ callers'[e.c].value = ErrShutdown
             /\ \A c \in Callers :
                   callers'[c].value = ErrClosed => callers[c].value = ErrClosed]_vars
    /\ [][isShuttingDown => (~CreatesSocket /\ connectTimers' = 0)]_vars
    /\ [](isShuttingDown => (inflightRequests = <<>> /\ connectTimers = 0))

\* Both callers had their first call pending when the shutdown started.
C15_Witness ==
    /\ isShuttingDown
    /\ \A c \in Callers : callers[c].value = ErrShutdown /\ callers[c].sent = 1
    /\ inflightRequests = <<>>

\* C16: a step that removes an entry and fails its caller with the stale
\* error does so only for an entry whose age exceeds the timeout its own timer
\* was armed with plus the margin.
C16_StaleOnlyPastOwnTimeout ==
    [][\A id \in DOMAIN inflightRequests \cap DOMAIN requestTimers :
          LET e == inflightRequests[id]
          IN (/\ id \notin DOMAIN inflightRequests'
              /\ callers[e.c].st = "pending"
              /\ callers'[e.c].value = ErrStale)
             => e.age > requestTimers[id].delay + STALE_MARGIN]_vars

\* The close handler computes the delay of the reconnection after attempt ra
ScheduleReconnect(ra) ==
    /\ backoff' = [kind |-> "reconnect", n |-> ra, base |-> ReconnectDelay(ra),
                   jitter |-> 0, delay |-> ReconnectDelay(ra)]
    /\ UNCHANGED <<bridge, connectionStats, handled, wire>>

\* The timeout callback of a first transmission computes the delay of the
\* first retry from the configured retry delay
FirstRetry(j) ==
    /\ backoff' = [kind |-> "retry", n |-> 1,
                   base |-> NextRetryDelay(QUOTE_RETRY_DELAY_MS),
                   jitter |-> j,
                   delay |-> NextRetryDelay(QUOTE_RETRY_DELAY_MS) + j]
    /\ UNCHANGED <<bridge, connectionStats, handled, wire>>

\* The timeout callback of a retry computes the delay of the next retry from
\* the retryDelay it was handed (the previous delay before jitter)
LaterRetry(j) ==
    /\ backoff.kind = "retry"
    /\ backoff.n < MaxRound
    /\ backoff' = [kind |-> "retry", n |-> backoff.n + 1,
                   base |-> NextRetryDelay(backoff.base),
                   jitter |-> j,
                   delay |-> NextRetryDelay(backoff.base) + j]
    /\ UNCHANGED <<bridge, connectionStats, handled, wire>>

\* C17: the reconnection delay does not decrease when the attempt number
\* grows, and the retry delay before jitter does not decrease from one retry
\* to the next; every reconnection delay lies in 0..30000 and every retry
\* delay, jitter included, in 0..30000 + 500.
C17_BackoffBounded ==
    /\ [][(backoff.kind = "reconnect" /\ backoff'.kind = "reconnect"
           /\ backoff'.n >= backoff.n) => backoff'.base >= backoff.base]_vars
    /\ [][(backoff.kind = "retry" /\ backoff'.kind = "retry"
           /\ backoff'.n = backoff.n + 1) => backoff'.base >= backoff.base]_vars
    /\ [](backoff.kind = "reconnect" =>
             /\ backoff.delay >= 0
             /\ backoff.delay <= MAX_RECONNECT_DELAY)
    /\ [](backoff.kind = "retry" =>
             /\ backoff.delay >= 0
             /\ backoff.delay <= MAX_RETRY_DELAY + JITTER_BOUND)

\* A retry whose delay before jitter has reached the cap, with the largest
\* jitter.
C17_Witness ==
    /\ backoff.kind = "retry"
    /\ backoff.n = MaxRound
    /\ backoff.base = MAX_RETRY_DELAY
    /\ backoff.delay = MAX_RETRY_DELAY + JITTER_BOUND - 1

\* C18: whenever the process is running, getConnectionState returns
\* DISCONNECTED, CONNECTING, OPEN or CLOSING, never CLOSED or UNKNOWN.
C18_FourStates ==
    ~exited => getConnectionState \in {"DISCONNECTED", "CONNECTING", "OPEN", "CLOSING"}

\* A socket has reached CLOSED while the current one is closing.
C18_Witness ==
    /\ ~exited
    /\ getConnectionState = "CLOSING"
    /\ \E s \in Slots : sock[s] = "CLOSED"

\* What a call of sendWsRequest does to the counters: totalRequests++, and
\* totalErrors++ in the catch around stringify and send
SendStats(st, method, params) ==
    LET st1 == Bump(st, "totalRequests")
    IN IF isWebSocketReady(sock, wsClient) /\ method # "" /\ params = "circular"
       THEN Bump(st1, "totalErrors") ELSE st1

\* What the message handler does to the counters: totalErrors++ for an error
\* reply of a pending exchange and in the catch
ReceiveStats(st, m) ==
    IF m.tag = "Garbage" THEN Bump(st, "totalErrors")
    ELSE LET env == ParseEnvelope(m)
         IN IF ~env.notif /\ env.requestId # 0
               /\ env.requestId \in DOMAIN inflightRequests /\ env.isError
            THEN Bump(st, "totalErrors") ELSE st

\* What the timeout callback does to the counters
TimeoutStats(st, id) ==
    IF TimeoutApplies(id) THEN Bump(st, "totalErrors") ELSE st

\* The handler leaves the counters as st, none above MaxStat
Counts(st) ==
    /\ \A f \in StatFields : st[f] <= MaxStat
    /\ connectionStats' = st
    /\ UNCHANGED <<backoff, handled, wire>>

\* POST /api/reset-stats
ResetStats ==
    /\ ~exited
    /\ connectionStats' = ZeroStats
    /\ UNCHANGED <<bridge, backoff, handled, wire>>

\* C19: a step other than reset-stats decreases none of the four counters;
\* reset-stats sets all four to zero and leaves the sockets, the current
\* socket, the attempt counter and inflightRequests as they were.
C19_StatsMonotone ==
    /\ [][~ResetStats =>
             \A f \in StatFields : connectionStats'[f] >= connectionStats[f]]_vars
    /\ [][ResetStats =>
             /\ connectionStats' = ZeroStats
             /\ sock' = sock /\ wsClient' = wsClient
             /\ reconnectAttempts' = reconnectAttempts
             /\ inflightRequests' = inflightRequests]_vars

\* The counters were reset while the connection was open with an exchange
\* pending.
C19_Witness ==
    /\ ~exited
    /\ connectionStats = ZeroStats
    /\ wsClient # 0 /\ sock[wsClient] = "OPEN"
    /\ reconnectAttempts = 0
    /\ DOMAIN inflightRequests # {}

\* C20: with the default retry delay and factor the wait before the first,
\* second and third retry is, jitter aside, 1000, 2000 and 4000 ms.
C20_RetryWaits ==
    (backoff.kind = "retry" /\ backoff.n \in 1..3)
        => backoff.base = QUOTE_RETRY_DELAY_MS * Pow2(backoff.n - 1)

\* C21: with the default configuration a quote request is transmitted at
\* most 3 times.
C21_AtMostThreeTransmissions ==
    \A c \in Callers : callers[c].sent <= 3

\* C22: with the default interval the delay before the k-th reconnection
\* (k >= 1 failed attempts so far) is 5000 * 2^(k-1) ms: 5 s, 10 s, 20 s,
\* 40 s, ...
C22_ReconnectDoubles ==
    (backoff.kind = "reconnect" /\ backoff.n >= 1)
        => backoff.delay = RECONNECT_INTERVAL * Pow2(backoff.n - 1)

\* C23: a quote that fails with the timeout error after its retries is
\* answered with 504, and one that fails because the WebSocket is not
\* connected (turned away by the readiness test, or by sendWsRequest at a
\* retry) is answered with 503.
C23_QuoteStatus ==
    \A c \in Callers :
        callers[c].st = "settled" =>
            /\ callers[c].value = ErrTimeout => QuoteStatus(callers[c]) = 504
            /\ callers[c].value \in {ErrUnavailable, ErrNotConnected}
                  => QuoteStatus(callers[c]) = 503

\* The open event of socket s is handled in this step
OpenStep(s) == sock[s] = "CONNECTING" /\ sock'[s] = "OPEN"

\* C24: the step that handles a socket's open event leaves the connection
\* state OPEN, the attempt counter at 0, totalConnections one higher and a
\* heartbeat interval running.
C24_OpenHandler ==
    [][\A s \in Slots :
          OpenStep(s) =>
             /\ getConnectionState' = "OPEN"
             /\ reconnectAttempts' = 0
             /\ connectionStats'.totalConnections
                    = connectionStats.totalConnections + 1
             /\ heartbeatIntervalId' = HEARTBEAT_INTERVAL]_vars

\* The attempt counter goes from a positive value to zero in this step
CounterReset == reconnectAttempts > 0 /\ reconnectAttempts' = 0

\* C25: a step in which the attempt counter goes from a positive value to
\* zero handles the open event of a socket.
C25_ResetOnlyOnOpen ==
    [][CounterReset => \E s \in Slots : OpenStep(s)]_vars

\* C25, amended: a step in which the attempt counter goes from a positive
\* value to zero handles the open event of a socket or is the reconnect
\* command.
C25_ResetOnOpenOrCommand ==
    [][CounterReset => ((\E s \in Slots : OpenStep(s)) \/ ApiReconnect)]_vars

\* The command came twice while the first socket was connecting: the counter
\* is zero although no socket has opened, and two command timers are armed.
C25_Witness ==
    /\ ~exited
    /\ wsClient = 1 /\ sock[1] = "CLOSING" /\ sock[2] = "NONE"
    /\ reconnectAttempts = 0
    /\ lastHeartbeat = None
    /\ connectTimers = 2

\* The close handler's delay computation, recorded: when it schedules a
\* reconnection the delay comes from the attempt counter as it stands
CloseRecordsDelay ==
    /\ backoff' = IF CloseReconnects(isShuttingDown, reconnectAttempts)
                  THEN [kind |-> "reconnect", n |-> reconnectAttempts,
                        base |-> ReconnectDelay(reconnectAttempts),
                        jitter |-> 0,
                        delay |-> ReconnectDelay(reconnectAttempts)]
                  ELSE backoff
    /\ UNCHANGED <<connectionStats, handled, wire>>

\* C26: every delay the close handler schedules a reconnection with is
\* computed for an attempt number of at least 1 and is not smaller than
\* RECONNECT_INTERVAL.
C26_DelayAtLeastBase ==
    backoff.kind = "reconnect" =>
        /\ backoff.n >= 1
        /\ backoff.delay >= RECONNECT_INTERVAL

\* C27: in every step that removes an entry from inflightRequests, the
\* resolve or reject kept in the entry is called in that step, or a retry
\* timer is armed on behalf of its caller; the caller is then settled, or has
\* the retry pending, or the process has exited.
C27_RemovalSettles ==
    [][\A id \in DOMAIN inflightRequests :
          id \notin DOMAIN inflightRequests' =>
             LET e == inflightRequests[id]
                 retryArmed == /\ retryTimers[e.c] = NoTimer
                               /\ retryTimers'[e.c] # NoTimer
                               /\ retryTimers'[e.c].k = e.k + 1
             IN /\ \/ settleCalls'[e.c][e.k] = settleCalls[e.c][e.k] + 1
                   \/ retryArmed
                /\ \/ callers'[e.c].st = "settled"
                   \/ retryArmed
                   \/ exited']_vars

\* One caller's entry was removed by the sweeper, the other's by its timeout
\* with a retry now pending.
C27_Witness ==
    /\ ~exited
    /\ inflightRequests = <<>>
    /\ callers[1].value = ErrStale
    /\ callers[2].st = "pending"
    /\ retryTimers[2] # NoTimer

\* C28: with several exchanges outstanding, a reply (success or error) whose
\* id matches entry X settles the caller of X with the payload of that reply,
\* removes X's entry and nothing else, and leaves every other entry, every
\* other caller and every timer as they were, whichever of the outstanding
\* identifiers the reply carries.
C28_RepliesIndependent ==
    [][\A s \in Slots, m \in Replies :
          (/\ m.id \in DOMAIN inflightRequests
           /\ Cardinality(DOMAIN inflightRequests) >= 2
           /\ Receive(s, m))
          => LET e == inflightRequests[m.id]
             IN /\ inflightRequests' = Without(inflightRequests, m.id)
                /\ requestTimers' = requestTimers
                /\ retryTimers' = retryTimers
                /\ \A d \in Callers \ {e.c} :
                      callers'[d] = callers[d] /\ settleCalls'[d] = settleCalls[d]
                /\ callers'[e.c].st = "settled"
                /\ callers'[e.c].value =
                       IF m.tag = "Error" THEN JSONstringify(m.payload)
                       ELSE m.payload]_vars

\* The reply to the second identifier came first: the second caller holds
\* its payload while the first caller's exchange is still in the table.
C28_Witness ==
    /\ callers[2].kind = "resolved"
    /\ callers[2].value = "str"
    /\ callers[1].st = "pending"
    /\ 1 \in DOMAIN inflightRequests
    /\ inflightRequests[1].c = 1
    /\ 2 \notin DOMAIN inflightRequests

\* What the message handler does with a message: the catch block logs it,
\* handleNotification gets it, it settles a pending exchange, or it is logged
\* as matching no request: with no request id at all ("shapeless"), with
\* one handed out before and no longer in the table ("late"), or with one
\* never handed out ("unmatched")
Disposition(m) ==
    IF m.tag = "Garbage" THEN "caught"
    ELSE LET env == ParseEnvelope(m)
         IN IF env.notif THEN "notification"
            ELSE IF env.requestId # 0 /\ env.requestId \in DOMAIN inflightRequests
                 THEN "reply"
                 ELSE IF env.requestId = 0 THEN "shapeless"
                 ELSE IF env.requestId < nextId THEN "late" ELSE "unmatched"

\* A step that handles no message
Quiet == handled' = "none" /\ UNCHANGED <<backoff, connectionStats, wire>>

\* The message handler's step, with what it did with the message
Handles(m) ==
    handled' = Disposition(m) /\ UNCHANGED <<backoff, connectionStats, wire>>

\* Everything a message could disturb is as it was: the sockets, the table,
\* the callers and their promises, the timers, and the process is running
Undisturbed ==
    /\ sock' = sock /\ wsClient' = wsClient
    /\ inflightRequests' = inflightRequests
    /\ callers' = callers /\ settleCalls' = settleCalls
    /\ requestTimers' = requestTimers /\ retryTimers' = retryTimers
    /\ connectTimers' = connectTimers
    /\ reconnectAttempts' = reconnectAttempts
    /\ ~isShuttingDown' /\ ~exited'

Malformed ==
    {Garbage} \cup Others \cup {m \in Replies : m.id = 0}
              \cup {m \in Notifs : m.payload = "falsy"}

\* C30: a malformed inbound message, unparseable or of no known shape, is
\* logged and dropped: the socket it came on stays OPEN, inflightRequests
\* and every caller are as they were, and the process does not shut down.
C30_MalformedDropped ==
    [][\A s \in Slots, m \in Malformed :
          (Receive(s, m) /\ Handles(m))
          => /\ handled' \in {"caught", "shapeless"}
             /\ sock'[s] = "OPEN"
             /\ Undisturbed]_vars

\* An envelope of no known shape was just dropped while an exchange was
\* pending on the open connection.
C30_Witness ==
    /\ handled = "shapeless"
    /\ wsClient # 0 /\ sock[wsClient] = "OPEN"
    /\ callers[1].st = "pending"
    /\ EntriesOf(1) # {}

\* A pong frame arrives on socket s: ws emits 'pong', and the bridge has
\* registered no listener for it, so no line of the bridge runs
Pong(s) ==
    /\ ~exited
    /\ sock[s] = "OPEN"
    /\ UNCHANGED bridge

\* The pong frame's step, recorded as inbound traffic
HandlesPong == handled' = "pong" /\ UNCHANGED <<backoff, connectionStats, wire>>

\* A millisecond passes since the last-seen timestamp was taken
HeartbeatTicks ==
    /\ ~exited
    /\ lastHeartbeat = 0
    /\ lastHeartbeat' = 1
    /\ UNCHANGED <<sock, wsClient, inflightRequests, reconnectAttempts,
                   isShuttingDown, heartbeatIntervalId, pongTimeoutId,
                   connectTimers, requestTimers, retryTimers, settleCalls,
                   callers, nextId, exited, trafficSinceProbe>>

\* C31: every kind of inbound traffic on an open connection, a pong, a
\* reply, a notification or any other message, one that fails to parse
\* included, sets lastHeartbeat to the current time (age 0).
C31_TrafficResetsLastSeen ==
    [][handled' # "none" => lastHeartbeat' = 0]_vars

\* wsClient.send(message), wsClient.ping(): the socket a transmission of
\* this step goes out on
SendsOn(ws) == ws

\* The step's transmissions: an entry new in the table had its envelope sent
\* in this step; pinged tells whether the step's sendHeartbeat sent a ping
Wires(pinged) ==
    LET new == DOMAIN inflightRequests' \ DOMAIN inflightRequests
    IN /\ wire' = [sent |-> [id \in DOMAIN inflightRequests' |->
                                IF id \in DOMAIN wire.sent /\ id \notin new
                                THEN wire.sent[id] ELSE SendsOn(wsClient)],
                   op |-> IF new # {} THEN "request"
                          ELSE IF pinged THEN "ping" ELSE "none",
                   slot |-> IF new # {} \/ pinged THEN SendsOn(wsClient) ELSE 0]
       /\ UNCHANGED <<backoff, connectionStats, handled>>

\* C32: a request, and a heartbeat probe, goes out only on the current
\* socket (the one wsClient refers to) and only while it is OPEN; a socket
\* that was superseded or is closing is never sent on.
C32_SendsOnCurrentOpen ==
    wire.op # "none"
        => /\ wire.slot # 0
           /\ wire.slot = wsClient
           /\ sock[wire.slot] = "OPEN"

\* A request was just sent on the second socket while the first, superseded
\* one is still closing.
C32_Witness ==
    /\ wire.op = "request"
    /\ wire.slot = 2
    /\ sock[1] = "CLOSING"

\* C33: the close event of a socket fails only the exchanges that were sent
\* on that socket; when it is the close event of a superseded socket, the
\* exchanges sent on the newer, live socket stay in the table, and the
\* reference to the newer socket and its heartbeat timers stay as they are.
C33_CloseFailsOwnExchanges ==
    [][\A s \in Slots :
          (sock[s] # "CLOSED" /\ sock'[s] = "CLOSED")
          => /\ \A id \in DOMAIN inflightRequests :
                    wire.sent[id] # s => id \in DOMAIN inflightRequests'
             /\ (wsClient # 0 /\ wsClient # s
                    /\ sock[wsClient] \in {"CONNECTING", "OPEN"})
                 => /\ wsClient' = wsClient
                    /\ heartbeatIntervalId' = heartbeatIntervalId
                    /\ pongTimeoutId' = pongTimeoutId]_vars

\* A caller waits out a retry delay
Waiting(c) == retryTimers[c] # NoTimer

\* C34: a caller that waits out a retry delay has no entry in the table.
\* A step that leaves the retry timer pending (a close event, a sweep, a
\* message) leaves the caller as it was.  The step in which the timer runs
\* either sends the request again on the socket that is OPEN then and
\* registers its entry, or rejects the caller at once with a not-connected
\* error and arms no further retry.
C34_RetryWindow ==
    [][\A c \in Callers :
          Waiting(c)
          => /\ EntriesOf(c) = {}
             /\ callers[c].st = "pending"
             /\ (retryTimers'[c] = retryTimers[c]) => callers'[c] = callers[c]
             /\ (retryTimers'[c] # retryTimers[c] /\ ~exited')
                => /\ retryTimers'[c] = NoTimer
                   /\ IF isWebSocketReady(sock, wsClient)
                      THEN /\ callers'[c].st = "pending"
                           /\ callers'[c].sent = callers[c].sent + 1
                           /\ \E id \in DOMAIN inflightRequests' :
                                  /\ id \notin DOMAIN inflightRequests
                                  /\ inflightRequests'[id].c = c
                                  /\ id \in DOMAIN requestTimers'
                           /\ wsClient' = wsClient /\ sock' = sock
                      ELSE /\ callers'[c].st = "settled"
                           /\ callers'[c].kind = "rejected"
                           /\ callers'[c].value \in NotConnectedErrors
                           /\ callers'[c].sent = callers[c].sent
                           /\ inflightRequests' = inflightRequests]_vars

\* A connection closed while a caller waits out a retry delay: the caller is
\* still pending, with one transmission made, and no socket is current.
C34_Witness ==
    /\ Waiting(1)
    /\ callers[1].st = "pending"
    /\ callers[1].sent = 1
    /\ wsClient = 0
    /\ \A s \in Slots : sock[s] \in {"NONE", "CLOSED"}

\* C35: a reply, Resp or Error, whose id is not in the table, never handed
\* out or belonging to an attempt already removed, changes nothing: no caller
\* is settled, the table and the timers are as they were; a late reply to a
\* timed-out attempt does not resolve the caller that waits for its retry.
C35_UnknownReplyIgnored ==
    [][\A s \in Slots, m \in Replies :
          (m.id # 0 /\ m.id \notin DOMAIN inflightRequests
             /\ Receive(s, m) /\ Handles(m))
          => /\ handled' \in {"late", "unmatched"}
             /\ callers' = callers
             /\ settleCalls' = settleCalls
             /\ inflightRequests' = inflightRequests
             /\ requestTimers' = requestTimers
             /\ retryTimers' = retryTimers]_vars

\* The reply to the one attempt made so far arrived after that attempt had
\* timed out, while the caller waits for the retry: the caller is pending.
C35_Witness ==
    /\ handled = "late"
    /\ nextId = 2
    /\ Waiting(1)
    /\ callers[1].st = "pending"
    /\ callers[1].sent = 1

\* C36: the attempt counter stays within 0..MAX_RECONNECT_ATTEMPTS, before
\* and after every step, the reconnect command included, and every step
\* that creates a WebSocket adds exactly one to it.
C36_CounterBounded ==
    [][/\ reconnectAttempts \in 0..MAX_RECONNECT_ATTEMPTS
       /\ reconnectAttempts' \in 0..MAX_RECONNECT_ATTEMPTS
       /\ CreatesSocket => reconnectAttempts' = reconnectAttempts + 1]_vars

\* Two sockets were created one after the other without an open between
\* them: the counter stands at the maximum and the second socket is
\* connecting.
C36_Witness ==
    /\ reconnectAttempts = MAX_RECONNECT_ATTEMPTS
    /\ wsClient = 2 /\ sock[2] = "CONNECTING"
    /\ sock[1] \in {"CLOSING", "CLOSED"}
    /\ lastHeartbeat = None

\* C37: every entry of the table has its timeout timer armed.  A call made
\* on an open connection whose method name is empty, or whose envelope
\* cannot be serialized or sent, rejects the caller and registers no entry
\* and arms no timer; a call that gets its envelope sent registers its entry
\* and arms the timer for it in the same step.
C37_EntryOnlyAfterSend ==
    [][/\ DOMAIN inflightRequests \subseteq DOMAIN requestTimers
       /\ DOMAIN inflightRequests' \subseteq DOMAIN requestTimers'
       /\ \A c \in Callers, method \in Methods, params \in ParamKinds,
             opt \in TimeoutOptions, retries \in RetryOptions :
             (isWebSocketReady(sock, wsClient)
                /\ Submit(c, method, params, opt, retries))
             => IF method = "" \/ params = "circular"
                THEN /\ callers'[c].st = "settled"
                     /\ callers'[c].kind = "rejected"
                     /\ callers'[c].value =
                            (IF method = "" THEN ErrBadMethod ELSE ErrSendFailed)
                     /\ callers'[c].sent = 0
                     /\ inflightRequests' = inflightRequests
                     /\ requestTimers' = requestTimers
                ELSE /\ callers'[c].st = "pending"
                     /\ callers'[c].sent = 1
                     /\ nextId \in DOMAIN inflightRequests'
                     /\ nextId \notin DOMAIN inflightRequests
                     /\ inflightRequests'[nextId].c = c
                     /\ nextId \in DOMAIN requestTimers'
                     /\ requestTimers'[nextId].delay = EffectiveTimeout(opt)]_vars

\* The second caller was rejected because its envelope could not be sent,
\* on an open connection where the first caller's exchange is pending with
\* its timer armed; no entry and no timer belongs to the second caller.
C37_Witness ==
    /\ callers[2].value = ErrSendFailed
    /\ callers[2].sent = 0
    /\ wsClient # 0 /\ sock[wsClient] = "OPEN"
    /\ EntriesOf(1) # {}
    /\ DOMAIN inflightRequests = DOMAIN requestTimers
    /\ EntriesOf(2) = {}

\* C38: the sweeper rejects the caller of every exchange it removes with
\* the stale error and cancels that exchange's timeout timer, so its timeout
\* callback cannot run later and no retry is armed for it, whatever retry
\* budget is left; a caller failed as stale stays as it is, with no entry and
\* no retry timer.
C38_StaleIsFinal ==
    [][/\ cleanupStaleRequests
          => \A id \in DOMAIN inflightRequests :
                IsStale(inflightRequests[id])
                => LET e == inflightRequests[id]
                   IN /\ id \notin DOMAIN inflightRequests'
                      /\ id \notin DOMAIN requestTimers'
                      /\ callers'[e.c].st = "settled"
                      /\ callers'[e.c].kind = "rejected"
                      /\ callers'[e.c].value = ErrStale
                      /\ callers'[e.c].sent = callers[e.c].sent
                      /\ retryTimers'[e.c] = NoTimer
                      /\ nextId' = nextId
       /\ \A c \in Callers :
             callers[c].value = ErrStale
             => /\ callers'[c] = callers[c]
                /\ retryTimers'[c] = NoTimer
                /\ \A id \in DOMAIN inflightRequests' :
                       inflightRequests'[id].c # c
                /\ \A id \in DOMAIN requestTimers' :
                       requestTimers'[id].c # c]_vars

\* A caller with retries left was failed as stale after one transmission;
\* no timer of it is armed.
C38_Witness ==
    \E c \in Callers :
        /\ callers[c].value = ErrStale
        /\ callers[c].budget > 0
        /\ callers[c].sent = 1
        /\ retryTimers[c] = NoTimer
        /\ \A id \in DOMAIN requestTimers : requestTimers[id].c # c

\* ---------------------------------------------------------- specification
\* The handlers of the bridge compute delays without recording them
Frozen == UNCHANGED <<backoff, connectionStats, handled, wire>>

Next ==
    \/ \E c \in Callers, method \in Methods, params \in ParamKinds,
          opt \in TimeoutOptions, retries \in RetryOptions :
            Submit(c, method, params, opt, retries) /\ Frozen
    \/ \E id \in Ids : RequestTimeout(id) /\ Frozen
    \/ \E c \in Callers : RetryRequest(c) /\ Frozen
    \/ \E s \in Slots, m \in Messages : Receive(s, m) /\ Frozen
    \/ \E s \in Slots : SocketOpen(s) /\ Frozen
    \/ \E s \in Slots : SocketError(s) /\ Frozen
    \/ \E s \in Slots : SocketClose(s) /\ Frozen
    \/ ConnectTimer /\ Frozen
    \/ HeartbeatTimer /\ Frozen
    \/ PongTimer /\ Frozen
    \/ gracefulShutdown /\ Frozen
    \/ cleanupStaleRequests /\ Frozen
    \/ performHealthCheck /\ Frozen
    \/ \E id \in Ids : Elapse(id) /\ Frozen
    \/ HeartbeatAges /\ Frozen

\* The bridge serving callers, without operator commands
Spec == Init /\ [][Next]_vars

\* The timers of the requests run: setTimeout callbacks are not starved
TimerFairness ==
    /\ \A id \in Ids : WF_vars(RequestTimeout(id) /\ Frozen)
    /\ \A c \in Callers : WF_vars(RetryRequest(c) /\ Frozen)
TimerSpec == Spec /\ TimerFairness

\* Every armed timer runs, and a socket that was terminated gets its close
\* event
Fairness ==
    /\ TimerFairness
    /\ WF_vars(PongTimer /\ Frozen)
    /\ WF_vars(ConnectTimer /\ Frozen)
    /\ \A s \in Slots : WF_vars(sock[s] = "CLOSING" /\ SocketClose(s) /\ Frozen)
LiveSpec == Spec /\ Fairness

\* The same with POST /api/reconnect
ManualNext == Next \/ (ApiReconnect /\ Frozen)
ManualSpec == Init /\ [][ManualNext]_vars

\* The bridge with an operator who may command a reconnection at any moment,
\* serving one caller; timers run and terminated sockets get their close event
ReconnectNext ==
    \/ \E method \in Methods, params \in ParamKinds,
          opt \in TimeoutOptions, retries \in RetryOptions :
            Submit(1, method, params, opt, retries) /\ Frozen
    \/ \E id \in Ids : RequestTimeout(id) /\ Frozen
    \/ \E c \in Callers : RetryRequest(c) /\ Frozen
    \/ \E s \in Slots, m \in Messages : Receive(s, m) /\ Frozen
    \/ \E s \in Slots : SocketOpen(s) /\ Frozen
    \/ \E s \in Slots : SocketError(s) /\ Frozen
    \/ \E s \in Slots : SocketClose(s) /\ Frozen
    \/ ConnectTimer /\ Frozen
    \/ HeartbeatTimer /\ Frozen
    \/ PongTimer /\ Frozen
    \/ gracefulShutdown /\ Frozen
    \/ cleanupStaleRequests /\ Frozen
    \/ performHealthCheck /\ Frozen
    \/ \E id \in Ids : Elapse(id) /\ Frozen
    \/ HeartbeatAges /\ Frozen
    \/ ApiReconnect /\ Frozen
ReconnectSpec == Init /\ [][ReconnectNext]_vars /\ Fairness

\* The backoff computations on their own, over attempt numbers and jitters
BackoffNext ==
    \/ \E ra \in 0..MaxAttempt : ScheduleReconnect(ra)
    \/ \E j \in Jitters : FirstRetry(j)
    \/ \E j \in Jitters : LaterRetry(j)
BackoffSpec == Init /\ [][BackoffNext]_vars

\* The bridge with its statistics, serving one caller, and an operator who
\* may reset the statistics at any moment
StatsNext ==
    \/ \E method \in Methods, params \in ParamKinds,
          opt \in TimeoutOptions, retries \in RetryOptions :
            Submit(1, method, params, opt, retries)
                /\ Counts(SendStats(connectionStats, method, params))
    \/ \E id \in Ids : RequestTimeout(id) /\ Counts(TimeoutStats(connectionStats, id))
    \/ \E c \in Callers :
            RetryRequest(c) /\ Counts(SendStats(connectionStats, "GetQuote", "plain"))
    \/ \E s \in Slots, m \in Messages :
            Receive(s, m) /\ Counts(ReceiveStats(connectionStats, m))
    \/ \E s \in Slots :
            SocketOpen(s) /\ Counts(Bump(connectionStats, "totalConnections"))
    \/ \E s \in Slots :
            SocketError(s) /\ Counts(Bump(connectionStats, "totalErrors"))
    \/ \E s \in Slots :
            SocketClose(s) /\ Counts(Bump(connectionStats, "totalDisconnections"))
    \/ ConnectTimer /\ Frozen
    \/ HeartbeatTimer /\ Frozen
    \/ PongTimer /\ Frozen
    \/ gracefulShutdown /\ Frozen
    \/ cleanupStaleRequests /\ Frozen
    \/ performHealthCheck /\ Frozen
    \/ \E id \in Ids : Elapse(id) /\ Frozen
    \/ HeartbeatAges /\ Frozen
    \/ ResetStats
StatsSpec == Init /\ [][StatsNext]_vars

\* Replies the manager can send to the quotes
QuoteMessages ==
    [wrap : {"From", "bare"}, tag : {"Resp", "Error"}, id : QuoteIds,
     payload : Payloads] \cup Notifs \cup Others \cup {Garbage}

\* The bridge serving POST /api/quote under the default configuration.  No
\* timeout exceeds REQUEST_TIMEOUT then, so the sweeper finds nothing stale
\* before the request's own timer is due.
QuoteNext ==
    \/ \E c \in Callers : ApiQuote(c) /\ Frozen
    \/ \E id \in QuoteIds : RequestTimeout(id) /\ Frozen
    \/ \E c \in Callers : RetryRequest(c) /\ Frozen
    \/ \E s \in Slots, m \in QuoteMessages : Receive(s, m) /\ Frozen
    \/ \E s \in Slots : SocketOpen(s) /\ Frozen
    \/ \E s \in Slots : SocketError(s) /\ Frozen
    \/ \E s \in Slots : SocketClose(s) /\ Frozen
    \/ ConnectTimer /\ Frozen
    \/ HeartbeatTimer /\ Frozen
    \/ PongTimer /\ Frozen
    \/ gracefulShutdown /\ Frozen
    \/ performHealthCheck /\ Frozen
    \/ HeartbeatAges /\ Frozen
QuoteSpec == Init /\ [][QuoteNext]_vars

\* The bridge serving one caller, with the delay of each scheduled
\* reconnection recorded
DelayNext ==
    \/ \E method \in Methods, params \in ParamKinds,
          opt \in TimeoutOptions, retries \in RetryOptions :
            Submit(1, method, params, opt, retries) /\ Frozen
    \/ \E id \in Ids : RequestTimeout(id) /\ Frozen
    \/ \E c \in Callers : RetryRequest(c) /\ Frozen
    \/ \E s \in Slots, m \in Messages : Receive(s, m) /\ Frozen
    \/ \E s \in Slots : SocketOpen(s) /\ Frozen
    \/ \E s \in Slots : SocketError(s) /\ Frozen
    \/ \E s \in Slots : SocketClose(s) /\ CloseRecordsDelay
    \/ ConnectTimer /\ Frozen
    \/ HeartbeatTimer /\ Frozen
    \/ PongTimer /\ Frozen
    \/ gracefulShutdown /\ Frozen
    \/ cleanupStaleRequests /\ Frozen
    \/ performHealthCheck /\ Frozen
    \/ \E id \in Ids : Elapse(id) /\ Frozen
    \/ HeartbeatAges /\ Frozen
DelaySpec == Init /\ [][DelayNext]_vars

\* The bridge serving one caller, with the disposition of each inbound
\* message recorded
InboundNext ==
    \/ \E method \in Methods, params \in ParamKinds,
          opt \in TimeoutOptions, retries \in RetryOptions :
            Submit(1, method, params, opt, retries) /\ Quiet
    \/ \E id \in Ids : RequestTimeout(id) /\ Quiet
    \/ \E c \in Callers : RetryRequest(c) /\ Quiet
    \/ \E s \in Slots, m \in Messages : Receive(s, m) /\ Handles(m)
    \/ \E s \in Slots : SocketOpen(s) /\ Quiet
    \/ \E s \in Slots : SocketError(s) /\ Quiet
    \/ \E s \in Slots : SocketClose(s) /\ Quiet
    \/ ConnectTimer /\ Quiet
    \/ HeartbeatTimer /\ Quiet
    \/ PongTimer /\ Quiet
    \/ gracefulShutdown /\ Quiet
    \/ cleanupStaleRequests /\ Quiet
    \/ performHealthCheck /\ Quiet
    \/ \E id \in Ids : Elapse(id) /\ Quiet
    \/ HeartbeatAges /\ Quiet
InboundSpec == Init /\ [][InboundNext]_vars

\* The bridge serving one caller, with pong frames and the age of the
\* last-seen timestamp
SeenNext ==
    \/ InboundNext
    \/ \E s \in Slots : Pong(s) /\ HandlesPong
    \/ HeartbeatTicks /\ Quiet
SeenSpec == Init /\ [][SeenNext]_vars

\* The bridge with the socket of every transmission recorded
WireNext ==
    \/ \E c \in Callers, method \in Methods, params \in ParamKinds,
          opt \in TimeoutOptions, retries \in RetryOptions :
            Submit(c, method, params, opt, retries) /\ Wires(FALSE)
    \/ \E id \in Ids : RequestTimeout(id) /\ Wires(FALSE)
    \/ \E c \in Callers : RetryRequest(c) /\ Wires(FALSE)
    \/ \E s \in Slots, m \in Messages : Receive(s, m) /\ Wires(FALSE)
    \/ \E s \in Slots : SocketOpen(s) /\ Wires(Pings(sock', wsClient))
    \/ \E s \in Slots : SocketError(s) /\ Wires(FALSE)
    \/ \E s \in Slots : SocketClose(s) /\ Wires(FALSE)
    \/ ConnectTimer /\ Wires(FALSE)
    \/ HeartbeatTimer /\ Wires(Pings(sock, wsClient))
    \/ PongTimer /\ Wires(FALSE)
    \/ gracefulShutdown /\ Wires(FALSE)
    \/ cleanupStaleRequests /\ Wires(FALSE)
    \/ performHealthCheck /\ Wires(FALSE)
    \/ \E id \in Ids : Elapse(id) /\ Wires(FALSE)
    \/ HeartbeatAges /\ Wires(FALSE)
WireSpec == Init /\ [][WireNext]_vars

====
